---- MODULE Spec2Model ----
(***************************************************************************)
(* A model of cmd/janitor/gcp_janitor.py: the candidate filter             *)
(* (validate_item), the listing and grouping pass (collect), the batched,  *)
(* threaded deleter (asyncCall, clear_resources), the catalog loop of main *)
(* with its exit status, the cluster sweep (clean_gke_cluster) and the     *)
(* subnet range cleaner (clean_secondary_ip_ranges).                       *)
(*                                                                         *)
(* Python values are modelled as follows.  A JSON item is a record with    *)
(* one field per key of the list format; a key that is absent holds None   *)
(* (string valued keys) or the empty tuple NoValue (timestamps and paths). *)
(* A timestamp text "YYYY-mm-ddTHH:MM:SS" is the tuple <<date, time>>; a   *)
(* datetime is a record with date, time and microsecond, compared field by *)
(* field.  A zone or region value is the tuple of its '/' separated        *)
(* segments.                                                               *)
(***************************************************************************)
EXTENDS Integers, Sequences, FiniteSets, Bags, TLC

(***************************************************************************)
(* Bounds of the model.                                                    *)
(***************************************************************************)
\* Longest listing one list call returns.
MaxItems == 3
\* Largest --ratelimit tried (0 is tried too).
MaxRate == 2
\* Dates run over 0..MaxDate.
MaxDate == 1
\* Longest cluster listing one endpoint returns.
MaxClusters == 2
\* Longest subnet listing.
MaxSubnets == 2
\* Most secondary ranges one subnet has.
MaxRanges == 2
\* Longest listing whose records are remembered (SpecCollect).
MaxListing == 2

None == "None"
NoValue == << >>

(***************************************************************************)
(* The catalog.  A selection of the entries of RESOURCES_BY_API, in their  *)
(* declared order (lines 76, 78, 85, 91 and 97), one for each shape of     *)
(* entry the catalog holds: zonal with a managed filter, global, regional  *)
(* and tolerant, unscoped with preserved names and no bulk deletion,       *)
(* unscoped with preserved names and bulk deletion.                        *)
(***************************************************************************)
Resource(api_version, group, name, subgroup, condition, managed, tolerate, bulk_delete, preserved_names) ==
    [api_version |-> api_version, group |-> group, name |-> name,
     subgroup |-> subgroup, condition |-> condition, managed |-> managed,
     tolerate |-> tolerate, bulk_delete |-> bulk_delete,
     preserved_names |-> preserved_names]

RESOURCES_BY_API ==
    << [api |-> "compute.googleapis.com",
        resources |-> <<
          Resource("", "compute", "instance-groups", None, "zone", "Yes", FALSE, TRUE, {}),
          Resource("", "compute", "instance-templates", None, "global", None, FALSE, TRUE, {}),
          Resource("", "compute", "networks", "subnets", "region", None, TRUE, TRUE, {}) >>],
       [api |-> "logging.googleapis.com",
        resources |-> <<
          Resource("", "logging", "sinks", None, None, None, FALSE, FALSE,
                   {"_Default", "_Required"}) >>],
       [api |-> "pubsub.googleapis.com",
        resources |-> <<
          Resource("", "pubsub", "topics", None, None, None, FALSE, TRUE,
                   {"container-analysis-notes-v1", "container-analysis-notes-v1beta1",
                    "container-analysis-occurrences-v1",
                    "container-analysis-occurrences-v1beta1"}) >>] >>

NumApis == Len(RESOURCES_BY_API)
ApiIdx == 1..NumApis
\* RESOURCES_BY_API.items() (line 671): the i-th API the loop visits is the
\* i-th the dict literal declares (a dict keeps insertion order).
DictItemsHashOrder(i) == IF i = 1 THEN 2 ELSE IF i = 2 THEN 1 ELSE i
DictItems(i) == i
ResIdx(a) == 1..Len(RESOURCES_BY_API[a].resources)
Res(a, r) == RESOURCES_BY_API[a].resources[r]
\* Every catalog position, and the catalog order on positions.
Positions == UNION { { <<a, r>> : r \in ResIdx(a) } : a \in ApiIdx }
Before(p, q) == p[1] < q[1] \/ (p[1] = q[1] /\ p[2] < q[2])
AllResources == { Res(p[1], p[2]) : p \in Positions }

(***************************************************************************)
(* Items of a listing.                                                     *)
(***************************************************************************)
Dates == 0..MaxDate
Times == 0..1
Timestamps == Dates \X Times
Names == {"a", "container-analysis-notes-v1"}
ZoneValues == { <<"z1">>, <<"zones", "z1">>, <<"zones", "z2">> }
RegionValues == { <<"regions", "r1">> }
Items ==
    [name : Names \cup {None},
     creationTimestamp : Timestamps \cup {NoValue},
     createTime : Timestamps \cup {NoValue},
     isManaged : {"Yes", "No", None},
     zone : ZoneValues \cup {NoValue},
     region : RegionValues \cup {NoValue}]

\* The items of the driver's listings: the list format of line 304 asks for
\* both timestamp keys; the listings tried here carry creationTimestamp or
\* none, on the last two dates (SpecFilter tries every item).
ListItems ==
    { i \in Items :
        /\ i.createTime = NoValue
        /\ i.creationTimestamp # NoValue => i.creationTimestamp[1] >= MaxDate - 1 }

\* item[key] for key in {'zone', 'region'}.
Field(item, key) == IF key = "zone" THEN item.zone ELSE item.region
\* (the leading path segment)
FirstSegment(path) == path[1]

\* str.rsplit('/', 1)[-1]: the trailing path segment.
LastSegment(path) == path[Len(path)]

(***************************************************************************)
(* Datetimes.                                                              *)
(***************************************************************************)
Datetimes == [date : Dates, time : Times, micro : 0..1]
\* datetime.strptime(text, '%Y-%m-%dT%H:%M:%S')
strptime(text) == [date |-> text[1], time |-> text[2], micro |-> 0]
\* datetime.__lt__
DatetimeLess(x, y) ==
    \/ x.date < y.date
    \/ x.date = y.date /\ x.time < y.time
    \/ x.date = y.date /\ x.time = y.time /\ x.micro < y.micro

(***************************************************************************)
(* validate_item.  The result is "True", "False" or "ValueError".          *)
(***************************************************************************)
\* item.get('creationTimestamp', item.get('createTime'))
CreationTimestampOf(item) ==
    IF item.creationTimestamp # NoValue THEN item.creationTimestamp
    ELSE item.createTime

IsPreserved(item, resource) ==
    resource.preserved_names # {} /\ item.name \in resource.preserved_names

\* (a cutoff that is not strict)
AgeCheckNotStrict(item, age) ==
    IF CreationTimestampOf(item) = NoValue THEN "ValueError"
    ELSE IF ~DatetimeLess(age, strptime(CreationTimestampOf(item))) THEN "True"
    ELSE "False"

AgeCheck(item, age) ==
    IF CreationTimestampOf(item) = NoValue THEN "ValueError"
    ELSE IF DatetimeLess(strptime(CreationTimestampOf(item)), age) THEN "True"
    ELSE "False"

\* (a missing isManaged taken for a mismatch)
ManagedCheckLenient(item, resource) ==
    IF resource.managed = None THEN "pass"
    ELSE IF resource.managed # item.isManaged THEN "False"
    ELSE "pass"

ManagedCheck(item, resource) ==
    IF resource.managed = None THEN "pass"
    ELSE IF item.isManaged = None THEN "ValueError"
    ELSE IF resource.managed # item.isManaged THEN "False"
    ELSE "pass"

\* (clear_all tested before the preserved names)
validate_item_ClearAllFirst(item, age, resource, clear_all) ==
    IF clear_all /\ ManagedCheck(item, resource) = "pass" THEN "True"
    ELSE IF IsPreserved(item, resource) THEN "False"
    ELSE IF ManagedCheck(item, resource) # "pass" THEN ManagedCheck(item, resource)
    ELSE AgeCheck(item, age)

validate_item(item, age, resource, clear_all) ==
    IF IsPreserved(item, resource) THEN "False"
    ELSE IF ManagedCheck(item, resource) # "pass" THEN ManagedCheck(item, resource)
    ELSE IF clear_all THEN "True"
    ELSE AgeCheck(item, age)

(***************************************************************************)
(* collect: the group key of one item, and the defaultdict of groups.  The *)
(* dict keeps its keys in insertion order, so col is the sequence of its   *)
(* (key, items) entries.                                                   *)
(***************************************************************************)
\* (the test of line 334 left out: every item goes to the global group)
ColNameGlobalKeepsMarked(item, resource) ==
    IF resource.condition = None \/ resource.condition = "global"
    THEN [kind |-> "key", key |-> ""]
    ELSE IF Field(item, resource.condition) # NoValue
         THEN [kind |-> "key", key |-> LastSegment(Field(item, resource.condition))]
    ELSE [kind |-> "skip", key |-> ""]

\* Lines 329-350: "skip" for an item the loop passes over, else the key.
\* (The catalog of the model holds no filestore entry, whose key is taken
\* from the item's name: line 344.)
ColName(item, resource) ==
    IF resource.condition = None THEN [kind |-> "key", key |-> ""]
    ELSE IF resource.condition = "global"
         THEN IF item.zone # NoValue \/ item.region # NoValue
              THEN [kind |-> "skip", key |-> ""]
              ELSE [kind |-> "key", key |-> ""]
    ELSE IF Field(item, resource.condition) # NoValue
         THEN [kind |-> "key", key |-> LastSegment(Field(item, resource.condition))]
    ELSE [kind |-> "skip", key |-> ""]

HasKey(c, key) == \E g \in 1..Len(c) : c[g].key = key

\* col[colname].append(name)
ColAppend(c, key, name) ==
    IF HasKey(c, key)
    THEN [g \in 1..Len(c) |->
            IF c[g].key = key
            THEN [key |-> key, items |-> Append(c[g].items, name)]
            ELSE c[g]]
    ELSE Append(c, [key |-> key, items |-> <<name>>])

\* One pass of the loop of lines 323-353 over `item`: "ValueError" when it
\* raises, "skip" when it leaves the groups alone, "add" when it appends
\* the item's name to the group ColName gives.
ItemOutcome(item, age, resource, clear_all) ==
    IF item.name = None THEN "ValueError"
    ELSE IF ColName(item, resource).kind = "skip" THEN "skip"
    ELSE IF validate_item(item, age, resource, clear_all) = "ValueError"
         THEN "ValueError"
    ELSE IF validate_item(item, age, resource, clear_all) = "True" THEN "add"
    ELSE "skip"

RECURSIVE Kept(_)
\* The number of names in the groups.
Kept(c) == IF c = << >> THEN 0 ELSE Len(Head(c).items) + Kept(Tail(c))

\* Line 298: the listing is not even issued.
SkipsListing(resource, clear_all) == resource.name = "sinks" /\ ~clear_all

(***************************************************************************)
(* clear_resources: the batch size, the chunks and the commands.           *)
(***************************************************************************)
\* (the override for entries without bulk deletion left out)
EffectiveRateNoOverride(resource, rate_limit) == rate_limit

\* Lines 391-392.
EffectiveRate(resource, rate_limit) ==
    IF ~resource.bulk_delete THEN 1 ELSE rate_limit

Min(x, y) == IF x < y THEN x ELSE y

\* (a slice one short: items[idx:idx + rate_limit - 1])
SliceShort(items, idx, rate) ==
    SubSeq(items, idx + 1, Min(idx + rate - 1, Len(items)))

\* (a slice one long: items[idx:idx + rate_limit + 1])
SliceLong(items, idx, rate) ==
    SubSeq(items, idx + 1, Min(idx + rate + 1, Len(items)))

\* items[idx:idx + rate_limit], idx counted from 0.
Slice(items, idx, rate) == SubSeq(items, idx + 1, Min(idx + rate, Len(items)))

\* Lines 404-408: the scope flag of the command, NoValue for none.
Condition(resource, key) ==
    IF resource.condition # None /\ key # "" THEN <<resource.condition, key>>
    ELSE IF resource.condition = "global" THEN <<"global">>
    ELSE NoValue

\* Lines 414-418.
Cmd(resource, key, clean) ==
    [clean |-> clean, condition |-> Condition(resource, key),
     force |-> (resource.group = "filestore")]

RECURSIVE BitOr(_, _)
\* int.__or__ on non-negative integers.
BitOr(x, y) ==
    IF x = 0 THEN y
    ELSE IF y = 0 THEN x
    ELSE (IF x % 2 = 1 \/ y % 2 = 1 THEN 1 ELSE 0) + 2 * BitOr(x \div 2, y \div 2)

\* The status the operating system delivers for sys.exit(err).
ExitStatus(e) == e % 256

VARIABLES
    \* validate_item called on its own: the arguments and the result
    vItem, vAge, vRes, vClearAll, vOut,
    \* the run's configuration: ARGS.dryrun, clear_all, rate_limit, age
    dryrun, clear_all, rate_limit, age,
    \* main: its position (pc, and the catalog position api, res), the
    \* accumulator err, the process exit status (-1 while running)
    pc, api, res, err, status,
    \* collect: the number of items read from the listing, the groups
    nitems, col,
    \* clear_resources: the threads started and not yet seen finished by a
    \* join, the error list (only its length is read, line 428: a bag of
    \* the appending threads), the holder of the lock (0: free), the position
    \* of the dispatch loop (group gi, offset idx)
    threads, errs, lock, gi, idx,
    \* history: the catalog positions whose list call was issued, in order
    listed,
    \* the project: what the enablement query of each API answers
    enabled,
    \* history of a whole run: whether a failure that is not tolerated has
    \* occurred, the catalog positions whose pass raised in collect, and
    \* the positions whose pass was made
    failure, failedAt, processed,
    \* history: how the last pass over a catalog entry ended (what), and the
    \* number of names collect had kept when it raised (kept)
    event,
    \* clean_gke_cluster: the position of the loop of line 523 (0 before it),
    \* the value of os.environ['CLOUDSDK_API_ENDPOINT_OVERRIDES_CONTAINER']
    endpoint, environ,
    \* clean_secondary_ip_ranges: the list of line 452 and the position of
    \* the loop of line 467
    subnets, subnet,
    \* history: the client calls of the two cleaners, in order
    calls,
    \* history: the records collect has read from the output of its list
    \* call (line 323), in order, where a specification remembers them
    listing

filterVars == <<vItem, vAge, vRes, vClearAll, vOut>>
configVars == <<dryrun, clear_all, rate_limit, age, listing>>
localVars == <<nitems, col, errs, lock, gi, idx>>
driverVars == <<pc, api, res, err, status, nitems, col, threads, errs, lock,
                gi, idx, listed, event>>
cleanerVars == <<endpoint, environ, subnets, subnet, calls>>
runVars == <<enabled, failure, failedAt, processed>>
vars == <<vItem, vAge, vRes, vClearAll, vOut, dryrun, clear_all, rate_limit,
          age, pc, api, res, err, status, nitems, col, threads, errs, lock,
          gi, idx, listed, enabled, failure, failedAt, processed, event,
          endpoint, environ, subnets, subnet, calls, listing>>

\* api counts the passes of the loop of line 671; Cur is the catalog
\* position main is at.
Cur == <<DictItems(api), res>>
CurRes == Res(Cur[1], Cur[2])
\* The threads list of the running clear_resources call.
Local == SelectSeq(threads, LAMBDA t : t.res = Cur)
Finished(t) == t.st = "done"

\* The cutoff of a driver run: a date with items before, at and after it.
RunAge == [date |-> MaxDate, time |-> 0, micro |-> 0]

NoEvent == [what |-> "none", kept |-> 0]
Event(what, kept) == [what |-> what, kept |-> kept]

IdleFilter ==
    /\ vItem = [name |-> "a", creationTimestamp |-> NoValue,
                createTime |-> NoValue, isManaged |-> None, zone |-> NoValue,
                region |-> NoValue]
    /\ vAge = RunAge
    /\ vRes = Res(1, 1)
    /\ vClearAll = FALSE
    /\ vOut = "idle"

IdleDriver ==
    /\ dryrun = FALSE /\ clear_all = FALSE /\ rate_limit = 1 /\ age = RunAge
    /\ pc = "idle" /\ api = 1 /\ res = 0 /\ err = 0 /\ status = -1
    /\ nitems = 0 /\ col = << >> /\ threads = << >> /\ errs = EmptyBag
    /\ lock = 0 /\ gi = 0 /\ idx = 0 /\ listed = << >> /\ event = NoEvent

IdleCleaners ==
    /\ endpoint = 0 /\ environ = "" /\ subnets = << >> /\ subnet = 0
    /\ calls = << >> /\ listing = << >>

IdleRun ==
    /\ enabled = [a \in ApiIdx |-> "ENABLED"]
    /\ failure = FALSE /\ failedAt = {} /\ processed = {}

(***************************************************************************)
(* SpecFilter: validate_item applied once to any named item, cutoff,       *)
(* catalog entry and mode.  collect only calls it on items that have a     *)
(* name (line 326).                                                        *)
(***************************************************************************)
InitFilter ==
    /\ vItem \in { i \in Items : i.name # None }
    /\ vAge \in Datetimes
    /\ vRes \in AllResources
    /\ vClearAll \in BOOLEAN
    /\ vOut = "pending"
    /\ IdleDriver
    /\ IdleRun
    /\ IdleCleaners

Validate ==
    /\ vOut = "pending"
    /\ vOut' = validate_item(vItem, vAge, vRes, vClearAll)
    /\ UNCHANGED <<vItem, vAge, vRes, vClearAll>>
    /\ UNCHANGED configVars
    /\ UNCHANGED driverVars
    /\ UNCHANGED runVars
    /\ UNCHANGED cleanerVars

NextFilter == Validate

SpecFilter == InitFilter /\ [][NextFilter]_vars

(***************************************************************************)
(* Spec: the catalog loop of main (lines 669-688) with collect and         *)
(* clear_resources inside it, the deletion threads running concurrently.   *)
(***************************************************************************)
Init ==
    /\ IdleFilter
    /\ IdleRun
    /\ IdleCleaners
    /\ dryrun \in BOOLEAN
    /\ clear_all \in BOOLEAN
    /\ rate_limit \in 0..MaxRate
    /\ age = RunAge
    \* the catalog loop is entered after a clean start (lines 643-667)
    /\ err = 0
    /\ pc = "api" /\ api = 1 /\ res = 0 /\ status = -1
    /\ nitems = 0 /\ col = << >> /\ threads = << >> /\ errs = EmptyBag
    /\ lock = 0 /\ gi = 0 /\ idx = 0 /\ listed = << >> /\ event = NoEvent

\* A call's locals die with it.
ResetLocals ==
    /\ nitems' = 0 /\ col' = << >> /\ errs' = EmptyBag /\ lock' = 0
    /\ gi' = 0 /\ idx' = 0

\* The loops of lines 671 and 676 move on: the next entry of this API, else
\* the next API, else line 687.
Advance ==
    /\ IF res < Len(RESOURCES_BY_API[DictItems(api)].resources)
       THEN pc' = "collect" /\ api' = api /\ res' = res + 1
       ELSE IF api < NumApis
            THEN pc' = "api" /\ api' = api + 1 /\ res' = 0
            ELSE pc' = "finish" /\ api' = api /\ res' = res
    /\ ResetLocals

\* The except clause of lines 683-686.
Except == err' = BitOr(err, 1) /\ Advance

\* Lines 672-675: api_enabled.  A failed query raises CalledProcessError,
\* which nothing catches: the interpreter ends the process with status 1.
ApiEnabled ==
    /\ pc = "api"
    /\ \E state \in {"ENABLED", "", "DISABLED", "CalledProcessError"} :
         IF state = "CalledProcessError"
         THEN /\ pc' = "exited" /\ status' = 1
              /\ UNCHANGED <<api, res, localVars>>
         ELSE IF state = "ENABLED"
         THEN /\ pc' = "collect" /\ res' = 1
              /\ UNCHANGED <<api, status, localVars>>
         ELSE /\ IF api < NumApis
                 THEN pc' = "api" /\ api' = api + 1
                 ELSE pc' = "finish" /\ api' = api
              /\ UNCHANGED <<res, status, localVars>>
    /\ event' = NoEvent
    /\ UNCHANGED <<err, threads, listed>>
    /\ UNCHANGED configVars /\ UNCHANGED filterVars /\ UNCHANGED cleanerVars /\ UNCHANGED runVars

\* (a failed listing raised whatever the entry says)
ListFailureNeverTolerated(resource) == "raise"

\* Lines 318-321: what collect does when the list call fails.
ListFailure(resource) == IF resource.tolerate THEN "return" ELSE "raise"

\* collect, lines 294-321: up to the answer of the list call.
CollectList ==
    /\ pc = "collect"
    /\ IF SkipsListing(CurRes, clear_all)
       THEN /\ Advance /\ UNCHANGED <<err, listed>>
            /\ event' = Event("NotListed", 0)
       ELSE /\ listed' = Append(listed, Cur)
            /\ \E ok \in BOOLEAN :
                 IF ok THEN /\ pc' = "item" /\ event' = NoEvent
                            /\ UNCHANGED <<api, res, err, localVars>>
                 ELSE IF ListFailure(CurRes) = "return"
                 THEN /\ Advance /\ UNCHANGED err
                      /\ event' = Event("ListTolerated", 0)
                 ELSE Except /\ event' = Event("ListError", 0)
    /\ UNCHANGED <<status, threads>>
    /\ UNCHANGED configVars /\ UNCHANGED filterVars /\ UNCHANGED cleanerVars /\ UNCHANGED runVars

\* (a malformed item ends the listing pass, and what was kept is cleared)
CollectItemKeepsListed ==
    /\ pc = "item"
    /\ nitems < MaxItems
    /\ \E item \in ListItems :
         LET out == ItemOutcome(item, age, CurRes, clear_all) IN
         IF out = "ValueError"
         THEN /\ event' = Event("ValueError", Kept(col))
              /\ IF col = << >> THEN Except
                 ELSE /\ pc' = "clear" /\ err' = BitOr(err, 1)
                      /\ UNCHANGED <<api, res, localVars>>
         ELSE /\ nitems' = nitems + 1
              /\ col' = IF out = "add"
                        THEN ColAppend(col, ColName(item, CurRes).key, item.name)
                        ELSE col
              /\ UNCHANGED <<pc, api, res, err, errs, lock, gi, idx, event>>
    /\ UNCHANGED <<status, threads, listed>>
    /\ UNCHANGED configVars /\ UNCHANGED filterVars /\ UNCHANGED cleanerVars /\ UNCHANGED runVars

\* collect, lines 323-353: the loop pass of `item`.
CollectOne(item) ==
    /\ LET out == ItemOutcome(item, age, CurRes, clear_all) IN
         IF out = "ValueError"
         THEN Except /\ event' = Event("ValueError", Kept(col))
         ELSE /\ nitems' = nitems + 1
              /\ col' = IF out = "add"
                        THEN ColAppend(col, ColName(item, CurRes).key, item.name)
                        ELSE col
              /\ UNCHANGED <<pc, api, res, err, errs, lock, gi, idx, event>>
    /\ UNCHANGED <<status, threads, listed>>
    /\ UNCHANGED <<dryrun, clear_all, rate_limit, age>>
    /\ UNCHANGED filterVars /\ UNCHANGED cleanerVars /\ UNCHANGED runVars

\* collect, lines 323-353: one more item of the listing.
CollectItem ==
    /\ pc = "item"
    /\ nitems < MaxItems
    /\ \E item \in ListItems : CollectOne(item)
    /\ UNCHANGED listing

\* collect returns (line 354); main tests the groups (line 681).
CollectReturn ==
    /\ pc = "item"
    /\ IF col = << >>
       THEN Advance /\ event' = Event("NoGroups", 0)
       ELSE /\ pc' = "clear"
            /\ UNCHANGED <<api, res, localVars, event>>
    /\ UNCHANGED <<err, status, threads, listed>>
    /\ UNCHANGED configVars /\ UNCHANGED filterVars /\ UNCHANGED cleanerVars /\ UNCHANGED runVars

\* clear_resources, lines 385-412: the call starts; range() refuses a step
\* of 0 with a ValueError before any thread is started.
ClearStart ==
    /\ pc = "clear"
    /\ IF EffectiveRate(CurRes, rate_limit) = 0
       THEN Except /\ event' = Event("RangeError", 0)
       ELSE /\ pc' = "dispatch" /\ gi' = 1 /\ idx' = 0
            /\ UNCHANGED <<api, res, err, nitems, col, errs, lock, event>>
    /\ UNCHANGED <<status, threads, listed>>
    /\ UNCHANGED configVars /\ UNCHANGED filterVars /\ UNCHANGED cleanerVars /\ UNCHANGED runVars

\* (each task awaited before the next one is started)
StartReadyAfterJoin(started) == \A k \in 1..Len(started) : started[k].st = "done"

\* Line 423: Thread.start() returns once the thread runs; the loop goes on
\* whatever the threads started before are doing.
StartReady(started) == TRUE

\* clear_resources, lines 412-423: one chunk, one thread started.  A thread
\* is recorded with the call that started it (res), its command, the
\* tolerate argument, its position in asyncCall (st: "start", "raised" once
\* check_call has raised and the failure is to be recorded, "locked" inside
\* the with block, "done"), whether it has called gcloud (called) and whether
\* check_call raised (exc).
Dispatch ==
    /\ pc = "dispatch"
    /\ StartReady(threads)
    /\ LET rate == EffectiveRate(CurRes, rate_limit)
           items == col[gi].items
           last == idx + rate >= Len(items)
       IN /\ threads' = Append(threads,
                [res |-> Cur,
                 cmd |-> Cmd(CurRes, col[gi].key, Slice(items, idx, rate)),
                 tolerate |-> CurRes.tolerate,
                 st |-> "start", called |-> FALSE, exc |-> FALSE])
          /\ idx' = IF last THEN 0 ELSE idx + rate
          /\ gi' = IF last THEN gi + 1 ELSE gi
          /\ pc' = IF last /\ gi = Len(col) THEN "join" ELSE "dispatch"
    /\ UNCHANGED <<api, res, err, status, nitems, col, errs, lock, listed, event>>
    /\ UNCHANGED configVars /\ UNCHANGED filterVars /\ UNCHANGED cleanerVars /\ UNCHANGED runVars

SetThread(k, st, exc) ==
    threads' = [threads EXCEPT ![k] = [@ EXCEPT !.st = st, !.exc = exc]]

\* (the failure of a tolerated deletion recorded like any other)
asyncCallRecordsTolerated(dry, tolerate, ok) ==
    IF dry THEN [st |-> "done", called |-> FALSE, exc |-> FALSE]
    ELSE IF ok THEN [st |-> "done", called |-> TRUE, exc |-> FALSE]
    ELSE [st |-> "raised", called |-> TRUE, exc |-> TRUE]

\* (the dry-run test of line 358 left out)
asyncCallNoDryRun(dry, tolerate, ok) ==
    IF ok THEN [st |-> "done", called |-> TRUE, exc |-> FALSE]
    ELSE IF tolerate THEN [st |-> "done", called |-> TRUE, exc |-> TRUE]
    ELSE [st |-> "raised", called |-> TRUE, exc |-> TRUE]

\* asyncCall, lines 357-367: where a task stands after the first part of
\* asyncCall, `ok` being what gcloud answers if it is called.  In dry-run
\* mode the task returns before the call; a failure that is tolerated is
\* printed only (line 370).
asyncCall(dry, tolerate, ok) ==
    IF dry THEN [st |-> "done", called |-> FALSE, exc |-> FALSE]
    ELSE IF ok THEN [st |-> "done", called |-> TRUE, exc |-> FALSE]
    ELSE IF tolerate THEN [st |-> "done", called |-> TRUE, exc |-> TRUE]
    ELSE [st |-> "raised", called |-> TRUE, exc |-> TRUE]

\* asyncCall, lines 357-367 and 370: the call to gcloud and its outcome.
AsyncCall(k) ==
    /\ threads[k].st = "start"
    /\ \E ok \in BOOLEAN :
         LET out == asyncCall(dryrun, threads[k].tolerate, ok) IN
         threads' = [threads EXCEPT ![k] =
                       [@ EXCEPT !.st = out.st, !.called = out.called,
                                 !.exc = out.exc]]
    /\ UNCHANGED <<pc, api, res, err, status, listed, event>>
    /\ UNCHANGED localVars
    /\ UNCHANGED configVars /\ UNCHANGED filterVars /\ UNCHANGED cleanerVars /\ UNCHANGED runVars

\* (the with block entered without the lock)
AsyncAcquireNoLock(k) ==
    /\ threads[k].st = "raised"
    /\ lock' = k
    /\ SetThread(k, "locked", TRUE)
    /\ UNCHANGED <<pc, api, res, err, status, listed, event>>
    /\ UNCHANGED <<nitems, col, errs, gi, idx>>
    /\ UNCHANGED configVars /\ UNCHANGED filterVars /\ UNCHANGED cleanerVars /\ UNCHANGED runVars

\* asyncCall, line 368: the lock of the thread's clear_resources call (the
\* lock and the list of a call that has returned are no longer main's).
AsyncAcquire(k) ==
    /\ threads[k].st = "raised"
    /\ IF threads[k].res = Cur /\ pc \in {"dispatch", "join"}
       THEN lock = 0 /\ lock' = k
       ELSE UNCHANGED lock
    /\ SetThread(k, "locked", TRUE)
    /\ UNCHANGED <<pc, api, res, err, status, listed, event>>
    /\ UNCHANGED <<nitems, col, errs, gi, idx>>
    /\ UNCHANGED configVars /\ UNCHANGED filterVars /\ UNCHANGED cleanerVars /\ UNCHANGED runVars

\* asyncCall, lines 369-371: append, release, print.
AsyncAppend(k) ==
    /\ threads[k].st = "locked"
    /\ IF threads[k].res = Cur /\ pc \in {"dispatch", "join"}
       THEN errs' = errs (+) SetToBag({k}) /\ lock' = 0
       ELSE UNCHANGED <<errs, lock>>
    /\ SetThread(k, "done", TRUE)
    /\ UNCHANGED <<pc, api, res, err, status, listed, event>>
    /\ UNCHANGED <<nitems, col, gi, idx>>
    /\ UNCHANGED configVars /\ UNCHANGED filterVars /\ UNCHANGED cleanerVars /\ UNCHANGED runVars

Async == \E k \in 1..Len(threads) :
            AsyncCall(k) \/ AsyncAcquire(k) \/ AsyncAppend(k)

\* (the last thread started is not joined)
JoinTargetButLast(started) == IF started = << >> THEN 0 ELSE Len(started) - 1

\* Lines 426-427 join every thread of the list.
JoinTarget(started) == Len(started)

\* clear_resources, lines 425-428: every join has returned, that is every
\* thread of the list has finished; len(errs) is returned and or-ed into
\* err (line 682).
ClearReturn ==
    /\ pc = "join"
    /\ \A k \in 1..JoinTarget(Local) : Finished(Local[k])
    /\ err' = BitOr(err, BagCardinality(errs))
    /\ threads' = SelectSeq(threads, LAMBDA t : ~Finished(t))
    /\ Advance
    /\ event' = Event("Cleared", 0)
    /\ UNCHANGED <<status, listed>>
    /\ UNCHANGED configVars /\ UNCHANGED filterVars /\ UNCHANGED cleanerVars /\ UNCHANGED runVars

\* Lines 687-688.
Exit ==
    /\ pc = "finish"
    /\ pc' = "exited"
    /\ status' = ExitStatus(err)
    /\ event' = NoEvent
    /\ UNCHANGED <<api, res, err, threads, listed>>
    /\ UNCHANGED localVars
    /\ UNCHANGED configVars /\ UNCHANGED filterVars /\ UNCHANGED cleanerVars /\ UNCHANGED runVars

Next ==
    \/ ApiEnabled
    \/ CollectList
    \/ CollectItem
    \/ CollectReturn
    \/ ClearStart
    \/ Dispatch
    \/ Async
    \/ ClearReturn
    \/ Exit

Spec == Init /\ [][Next]_vars

(***************************************************************************)
(* SpecRun: a whole run of main from the cluster sweep to the exit (lines  *)
(* 661-688), one step for each call main makes.  The project fixes what    *)
(* each enablement query answers; a pass over a catalog entry is one step  *)
(* that ends as collect and clear_resources can end.  A listing is given   *)
(* by the number of names collect keeps (in one group), so that listings   *)
(* of hundreds of names are in reach.                                      *)
(***************************************************************************)
ApiAnswers == {"ENABLED", "", "CalledProcessError"}
\* The numbers of names a listing leaves in scope.
ListingSizes == {1, 2, 256}
\* Lines 412-423: the number of threads started for a group of n names.
NumChunks(n, rate) == (n + rate - 1) \div rate

InitRun ==
    /\ IdleFilter
    /\ IdleCleaners
    /\ dryrun \in BOOLEAN
    /\ clear_all \in BOOLEAN
    /\ rate_limit \in 0..MaxRate
    /\ age = RunAge
    /\ enabled \in [ApiIdx -> ApiAnswers]
    /\ pc = "sweep" /\ api = 1 /\ res = 0 /\ err = 0 /\ status = -1
    /\ nitems = 0 /\ col = << >> /\ threads = << >> /\ errs = EmptyBag
    /\ lock = 0 /\ gi = 0 /\ idx = 0 /\ listed = << >> /\ event = NoEvent
    /\ failure = FALSE /\ failedAt = {} /\ processed = {}

\* Lines 663-667: clean_gke_cluster returns len(errs) > 0 or raises
\* ValueError, which main turns into err |= 1.
RunSweep ==
    /\ pc = "sweep"
    /\ \E out \in {"False", "True", "ValueError"} :
         /\ err' = BitOr(err, IF out = "False" THEN 0 ELSE 1)
         /\ failure' = (out # "False")
    /\ pc' = "api"
    /\ UNCHANGED <<api, res, status, threads, listed, enabled, failedAt, processed, event>>
    /\ UNCHANGED localVars
    /\ UNCHANGED configVars /\ UNCHANGED filterVars /\ UNCHANGED cleanerVars

\* Lines 672-675, the query answered as the project fixes it.
RunApiEnabled ==
    /\ pc = "api"
    /\ LET state == enabled[DictItems(api)] IN
         IF state = "CalledProcessError"
         THEN /\ pc' = "exited" /\ status' = 1 /\ failure' = TRUE
              /\ event' = Event("CalledProcessError", 0)
              /\ UNCHANGED <<api, res>>
         ELSE IF state = "ENABLED"
         THEN /\ pc' = "collect" /\ res' = 1
              /\ UNCHANGED <<api, status, failure, event>>
         ELSE /\ IF api < NumApis
                 THEN pc' = "api" /\ api' = api + 1
                 ELSE pc' = "finish" /\ api' = api
              /\ UNCHANGED <<res, status, failure, event>>
    /\ UNCHANGED <<err, threads, listed, enabled, failedAt, processed>>
    /\ UNCHANGED localVars
    /\ UNCHANGED configVars /\ UNCHANGED filterVars /\ UNCHANGED cleanerVars

\* What clear_resources returns (line 428) when `nfail` of its deletion
\* calls fail: a call is made outside dry-run mode only (line 358), and its
\* failure is appended unless the entry is tolerant (line 367).
ClearResult(resource, nfail) ==
    IF dryrun \/ resource.tolerate THEN 0 ELSE nfail

\* Lines 679-686: the pass over the entry at Cur, to its end.
RunEntry ==
    /\ pc = "collect"
    /\ processed' = processed \cup {Cur}
    /\ \/ \* the listing is skipped, fails under tolerate, or leaves no group
          /\ Advance
          /\ UNCHANGED <<err, failure, failedAt>>
       \/ \* collect raises: the listing fails and the entry is not tolerant
          \* (line 321), or the listing holds a malformed item
          /\ ~SkipsListing(CurRes, clear_all)
          /\ Except
          /\ failure' = TRUE
          /\ failedAt' = failedAt \cup {Cur}
       \/ \* range() refuses the step 0
          /\ ~SkipsListing(CurRes, clear_all)
          /\ EffectiveRate(CurRes, rate_limit) = 0
          /\ Except
          /\ failure' = TRUE
          /\ UNCHANGED failedAt
       \/ \* clear_resources runs
          /\ ~SkipsListing(CurRes, clear_all)
          /\ EffectiveRate(CurRes, rate_limit) > 0
          /\ \E n \in ListingSizes :
               LET chunks == NumChunks(n, EffectiveRate(CurRes, rate_limit)) IN
               \E nfail \in {0, 1, chunks} :
                  /\ err' = BitOr(err, ClearResult(CurRes, nfail))
                  /\ failure' = (failure \/ ClearResult(CurRes, nfail) > 0)
          /\ Advance
          /\ UNCHANGED failedAt
    /\ UNCHANGED <<status, threads, listed, enabled, event>>
    /\ UNCHANGED configVars /\ UNCHANGED filterVars /\ UNCHANGED cleanerVars

\* Lines 687-688.
RunExit == Exit

NextRun == RunSweep \/ RunApiEnabled \/ RunEntry \/ RunExit

SpecRun == InitRun /\ [][NextRun]_vars

(***************************************************************************)
(* SpecSweep: clean_gke_cluster (lines 510-581) as main calls it (lines    *)
(* 663-667), the cluster deletion threads running concurrently.  A thread  *)
(* is recorded with the endpoint of the loop pass that started it.  When   *)
(* the call is over main is at the catalog loop (pc = "api").              *)
(***************************************************************************)
\* Lines 514-519.
endpoints ==
    << "https://test-container.sandbox.googleapis.com/",
       "https://staging-container.sandbox.googleapis.com/",
       "https://staging2-container.sandbox.googleapis.com/",
       "https://container.googleapis.com/" >>

\* The records of a cluster listing (format of line 533).  A createTime is
\* the timestamp text followed by its UTC offset.
ClusterTimes == { <<ts[1], ts[2], "+00:00">> : ts \in Timestamps }
ClusterItems ==
    [name : {"c", None},
     createTime : ClusterTimes \cup {NoValue},
     zone : {<<"z1">>, NoValue},
     region : {<<"r1">>, NoValue}]

\* Line 555: createTime.split('+')[0].
SplitPlus(text) == <<text[1], text[2]>>

\* Lines 547-575 on one record: "ValueError", "stale" (a deletion is
\* started) or "fresh".
ClusterOutcome(item, cutoff) ==
    IF item.name = None \/ item.createTime = NoValue THEN "ValueError"
    ELSE IF item.zone = NoValue /\ item.region = NoValue THEN "ValueError"
    ELSE IF DatetimeLess(strptime(SplitPlus(item.createTime)), cutoff) THEN "stale"
    ELSE "fresh"

\* Lines 562-570: the delete command.
ClusterDelete(item) ==
    [name |-> item.name,
     scope |-> IF item.zone # NoValue THEN <<"zone", item.zone>>
               ELSE <<"region", item.region>>]

\* The threads list of the running pass of the endpoint loop (line 524).
SweepLocal == SelectSeq(threads, LAMBDA t : t.endpoint = endpoint)

InitSweep ==
    /\ IdleFilter
    /\ IdleRun
    /\ dryrun \in BOOLEAN
    /\ clear_all = FALSE /\ rate_limit = 1 /\ age = RunAge
    /\ pc = "endpoint" /\ api = 1 /\ res = 0 /\ err = 0 /\ status = -1
    /\ nitems = 0 /\ col = << >> /\ threads = << >> /\ errs = EmptyBag
    /\ lock = 0 /\ gi = 0 /\ idx = 0 /\ listed = << >> /\ event = NoEvent
    /\ endpoint = 0 /\ environ = "" /\ subnets = << >> /\ subnet = 0
    /\ calls = << >> /\ listing = << >>

\* Lines 523-527, and line 581 with line 664 when the loop is over.
SweepEndpoint ==
    /\ pc = "endpoint"
    /\ IF endpoint < Len(endpoints)
       THEN /\ endpoint' = endpoint + 1
            /\ environ' = endpoints[endpoint + 1]
            /\ lock' = 0
            /\ pc' = "clusters"
            /\ UNCHANGED <<err, event>>
       ELSE /\ err' = BitOr(err, IF BagCardinality(errs) > 0 THEN 1 ELSE 0)
            /\ event' = Event("Swept", 0)
            /\ pc' = "api"
            /\ UNCHANGED <<endpoint, environ, lock>>
    /\ UNCHANGED <<api, res, status, nitems, col, threads, errs, gi, idx, listed>>
    /\ UNCHANGED <<subnets, subnet, calls>>
    /\ UNCHANGED configVars /\ UNCHANGED filterVars /\ UNCHANGED runVars

\* Lines 529-543: the list call; an endpoint that cannot be reached is
\* passed over.
SweepList ==
    /\ pc = "clusters"
    /\ listed' = Append(listed, endpoint)
    /\ \E ok \in BOOLEAN :
         /\ pc' = IF ok THEN "cluster" ELSE "endpoint"
         /\ nitems' = 0
    /\ UNCHANGED <<api, res, err, status, col, threads, errs, lock, gi, idx, event>>
    /\ UNCHANGED cleanerVars
    /\ UNCHANGED configVars /\ UNCHANGED filterVars /\ UNCHANGED runVars

\* Lines 545-575: one more record of the listing.  A ValueError leaves
\* clean_gke_cluster at once; main's except clause (lines 665-667) sets
\* err and goes on to the catalog loop.
SweepItem ==
    /\ pc = "cluster"
    /\ nitems < MaxClusters
    /\ \E item \in ClusterItems :
         LET out == ClusterOutcome(item, age) IN
         IF out = "ValueError"
         THEN /\ err' = BitOr(err, 1)
              /\ event' = Event("ValueError", Len(SweepLocal))
              /\ pc' = "api"
              /\ UNCHANGED <<nitems, threads>>
         ELSE /\ nitems' = nitems + 1
              /\ threads' = IF out = "stale"
                            THEN Append(threads,
                                   [endpoint |-> endpoint,
                                    cmd |-> ClusterDelete(item),
                                    tolerate |-> FALSE, st |-> "start",
                                    called |-> FALSE, exc |-> FALSE])
                            ELSE threads
              /\ UNCHANGED <<pc, err, event>>
    /\ UNCHANGED <<api, res, status, col, errs, lock, gi, idx, listed>>
    /\ UNCHANGED cleanerVars
    /\ UNCHANGED configVars /\ UNCHANGED filterVars /\ UNCHANGED runVars

\* (no thread is joined)
SweepJoinTargetNone(started) == 0

\* Lines 578-579 join every thread of the list.
SweepJoinTarget(started) == Len(started)

\* Lines 577-579: the listing is over and every join has returned.
SweepJoin ==
    /\ pc = "cluster"
    /\ \A k \in 1..SweepJoinTarget(SweepLocal) : Finished(SweepLocal[k])
    /\ threads' = SelectSeq(threads, LAMBDA t : ~Finished(t))
    /\ pc' = "endpoint"
    /\ nitems' = 0
    /\ UNCHANGED <<api, res, err, status, col, errs, lock, gi, idx, listed, event>>
    /\ UNCHANGED cleanerVars
    /\ UNCHANGED configVars /\ UNCHANGED filterVars /\ UNCHANGED runVars

\* asyncCall as a cluster deletion thread runs it: the call (lines
\* 357-367), the lock of the thread's endpoint pass (line 368), the append
\* to the errs list of clean_gke_cluster (lines 369-371).
SweepAsync ==
    /\ \E k \in 1..Len(threads) :
         \/ /\ threads[k].st = "start"
            /\ \E ok \in BOOLEAN :
                 LET out == asyncCall(dryrun, threads[k].tolerate, ok) IN
                 threads' = [threads EXCEPT ![k] =
                               [@ EXCEPT !.st = out.st, !.called = out.called,
                                         !.exc = out.exc]]
            /\ UNCHANGED <<errs, lock>>
         \/ /\ threads[k].st = "raised"
            /\ lock = 0 /\ lock' = k
            /\ SetThread(k, "locked", TRUE)
            /\ UNCHANGED errs
         \/ /\ threads[k].st = "locked"
            /\ errs' = errs (+) SetToBag({<<threads[k].endpoint, k>>})
            /\ lock' = 0
            /\ SetThread(k, "done", TRUE)
    /\ UNCHANGED <<pc, api, res, err, status, nitems, col, gi, idx, listed, event>>
    /\ UNCHANGED cleanerVars
    /\ UNCHANGED configVars /\ UNCHANGED filterVars /\ UNCHANGED runVars

NextSweep == SweepEndpoint \/ SweepList \/ SweepItem \/ SweepJoin \/ SweepAsync

SpecSweep == InitSweep /\ [][NextSweep]_vars

(***************************************************************************)
(* SpecSubnets: clean_secondary_ip_ranges (lines 431-507) as main calls it *)
(* (lines 656-659).  When the call is over main is at the cluster sweep    *)
(* (pc = "endpoint"); an exception main does not catch ends the process    *)
(* with status 1.  subnets and subnet keep the values they had when the    *)
(* call ended.                                                             *)
(***************************************************************************)
\* The records of the subnet listing (format of line 440).
SubnetItems ==
    [name : {"s1", "s2", "", None},
     region : {<<"regions", "r1">>, <<"regions", "">>, NoValue}]

\* Lines 456-464 on one record: "ValueError", or the Subnet to append.
SubnetMalformed(item) ==
    \/ item.name = None
    \/ item.region = NoValue
    \/ LastSegment(item.region) = ""
    \/ item.name = ""
Subnet(name, region) == [name |-> name, region |-> region]

\* What a describe call answers (lines 479-492): it fails, or it prints a
\* JSON value that is empty, or one without the key secondaryIpRanges, or
\* one that has the key with a list of ranges, a range being given by its
\* rangeName (None: the range has no such key).
RangeLists == UNION { [1..n -> {"range", None}] : n \in 0..MaxRanges }
DescribeResults ==
    [kind : {"CalledProcessError", "empty", "nokey"}, ranges : {<< >>}]
    \cup [kind : {"ranges"}, ranges : RangeLists]

\* A client call of the cleaner, with what it answered.
Call(op, target, ranges, ok) ==
    [op |-> op, subnet |-> target, ranges |-> ranges, ok |-> ok]

InitSubnets ==
    /\ IdleFilter
    /\ IdleRun
    /\ dryrun \in BOOLEAN
    /\ clear_all = FALSE /\ rate_limit = 1 /\ age = RunAge
    /\ pc = "subnets" /\ api = 1 /\ res = 0 /\ err = 0 /\ status = -1
    /\ nitems = 0 /\ col = << >> /\ threads = << >> /\ errs = EmptyBag
    /\ lock = 0 /\ gi = 0 /\ idx = 0 /\ listed = << >> /\ event = NoEvent
    /\ endpoint = 0 /\ environ = "" /\ subnets = << >> /\ subnet = 0
    /\ calls = << >> /\ listing = << >>

\* Lines 435-450: the list call.  Its failure is logged and raised again
\* (line 450); main catches ValueError only (line 658), so the
\* CalledProcessError ends the process.
SubnetsList ==
    /\ pc = "subnets"
    /\ \E ok \in BOOLEAN :
         /\ calls' = Append(calls, Call("list", 0, << >>, ok))
         /\ IF ok
            THEN pc' = "subnetitem" /\ UNCHANGED <<status, event>>
            ELSE /\ pc' = "exited" /\ status' = 1
                 /\ event' = Event("CalledProcessError", 0)
    /\ UNCHANGED <<api, res, err, nitems, col, threads, errs, lock, gi, idx, listed>>
    /\ UNCHANGED <<endpoint, environ, subnets, subnet>>
    /\ UNCHANGED configVars /\ UNCHANGED filterVars /\ UNCHANGED runVars

\* Lines 454-464: one more record of the listing.  A ValueError leaves the
\* function; main prints (line 659) and goes on.
SubnetsItem ==
    /\ pc = "subnetitem"
    /\ nitems < MaxSubnets
    /\ \E item \in SubnetItems :
         IF SubnetMalformed(item)
         THEN /\ pc' = "endpoint"
              /\ event' = Event("SubnetListValueError", 0)
              /\ UNCHANGED <<nitems, subnets>>
         ELSE /\ subnets' = Append(subnets, Subnet(item.name, LastSegment(item.region)))
              /\ nitems' = nitems + 1
              /\ UNCHANGED <<pc, event>>
    /\ UNCHANGED <<api, res, err, status, col, threads, errs, lock, gi, idx, listed>>
    /\ UNCHANGED <<endpoint, environ, subnet, calls>>
    /\ UNCHANGED configVars /\ UNCHANGED filterVars /\ UNCHANGED runVars

\* Line 467: the listing is over, the loop over the subnets begins.
SubnetsListed ==
    /\ pc = "subnetitem"
    /\ pc' = "describe"
    /\ subnet' = 1
    /\ UNCHANGED <<api, res, err, status, nitems, col, threads, errs, lock, gi, idx, listed, event>>
    /\ UNCHANGED <<endpoint, environ, subnets, calls>>
    /\ UNCHANGED configVars /\ UNCHANGED filterVars /\ UNCHANGED runVars

\* Lines 467-507: the loop pass of one subnet.  The describe call; then,
\* if it answered with the key secondaryIpRanges, the names of the ranges
\* are gathered (a range without rangeName raises ValueError, which leaves
\* the function) and the update call is made, in dry-run mode too.
SubnetPass ==
    /\ pc = "describe"
    /\ subnet <= Len(subnets)
    /\ \E d \in DescribeResults :
         LET described == Call("describe", subnet, d.ranges, d.kind # "CalledProcessError") IN
         IF d.kind # "ranges"
         THEN /\ calls' = Append(calls, described)
              /\ subnet' = subnet + 1
              /\ UNCHANGED <<pc, event>>
         ELSE IF \E i \in 1..Len(d.ranges) : d.ranges[i] = None
         THEN /\ calls' = Append(calls, described)
              /\ pc' = "endpoint"
              /\ event' = Event("SubnetRangeValueError", 0)
              /\ UNCHANGED subnet
         ELSE \E ok \in BOOLEAN :
              /\ calls' = calls \o << described, Call("update", subnet, d.ranges, ok) >>
              /\ subnet' = subnet + 1
              /\ UNCHANGED <<pc, event>>
    /\ UNCHANGED <<api, res, err, status, nitems, col, threads, errs, lock, gi, idx, listed>>
    /\ UNCHANGED <<endpoint, environ, subnets>>
    /\ UNCHANGED configVars /\ UNCHANGED filterVars /\ UNCHANGED runVars

\* The loop of line 467 is over: the function returns.
SubnetsReturn ==
    /\ pc = "describe"
    /\ subnet > Len(subnets)
    /\ pc' = "endpoint"
    /\ event' = Event("SubnetsReturned", 0)
    /\ UNCHANGED <<api, res, err, status, nitems, col, threads, errs, lock, gi, idx, listed>>
    /\ UNCHANGED cleanerVars
    /\ UNCHANGED configVars /\ UNCHANGED filterVars /\ UNCHANGED runVars

NextSubnets ==
    SubnetsList \/ SubnetsItem \/ SubnetsListed \/ SubnetPass \/ SubnetsReturn

SpecSubnets == InitSubnets /\ [][NextSubnets]_vars

(***************************************************************************)
(* SpecCollect: one pass of main over one catalog entry whose list call    *)
(* has answered (lines 323-354 and 385-423), the records read being        *)
(* remembered in listing: collect reads the records and groups them, then  *)
(* clear_resources builds the requests and starts their threads (which     *)
(* are not run here).                                                      *)
(***************************************************************************)
\* The records of these listings: named, managed, created just before the
\* cutoff or at it, with every zone and region value.
ScopeItems ==
    { i \in Items :
        /\ i.name # None /\ i.isManaged = "Yes" /\ i.createTime = NoValue
        /\ i.creationTimestamp \in { <<MaxDate - 1, 1>>, <<MaxDate, 0>> } }

InitCollect ==
    /\ IdleFilter
    /\ IdleRun
    /\ IdleCleaners
    /\ dryrun = FALSE
    /\ clear_all \in BOOLEAN
    /\ rate_limit = MaxRate
    /\ age = RunAge
    /\ \E p \in Positions :
         /\ api = p[1] /\ res = p[2]
         /\ ~SkipsListing(Res(p[1], p[2]), clear_all)
    /\ pc = "item" /\ err = 0 /\ status = -1
    /\ nitems = 0 /\ col = << >> /\ threads = << >> /\ errs = EmptyBag
    /\ lock = 0 /\ gi = 0 /\ idx = 0 /\ listed = << >> /\ event = NoEvent

\* collect, lines 323-353: one more record of the listing, remembered.
CollectRead ==
    /\ pc = "item"
    /\ Len(listing) < MaxListing
    /\ \E item \in ScopeItems :
         /\ CollectOne(item)
         /\ listing' = Append(listing, item)

NextCollect == CollectRead \/ CollectReturn \/ ClearStart \/ Dispatch

SpecCollect == InitCollect /\ [][NextCollect]_vars

(***************************************************************************)
(* Properties.                                                             *)
(***************************************************************************)
Range(s) == { s[i] : i \in DOMAIN s }
SeqToBag(s) == [x \in Range(s) |-> Cardinality({ i \in DOMAIN s : s[i] = x })]
RECURSIVE Flatten(_)
Flatten(ss) == IF ss = << >> THEN << >> ELSE Head(ss) \o Flatten(Tail(ss))

\* The instant of a datetime and of a timestamp text, as one number.
Instant(d) == (d.date * 2 + d.time) * 2 + d.micro
\* The creation time of an item: creationTimestamp, createTime without it.
CreationAbsent(item) ==
    item.creationTimestamp = NoValue /\ item.createTime = NoValue
CreationInstant(item) ==
    LET ts == IF item.creationTimestamp # NoValue THEN item.creationTimestamp
              ELSE item.createTime
    IN (ts[1] * 2 + ts[2]) * 2
NotPreserved(item, resource) == item.name \notin resource.preserved_names
SatisfiesManaged(item, resource) ==
    resource.managed = None \/ item.isManaged = resource.managed
\* The age / clear-all rule.
AgeRule(item, cutoff, clearAll) ==
    IF clearAll THEN "True"
    ELSE IF CreationAbsent(item) THEN "ValueError"
    ELSE IF CreationInstant(item) < Instant(cutoff) THEN "True"
    ELSE "False"
Validated == vOut \in {"True", "False", "ValueError"}

\* C1: a name in the preserved names of a catalog entry is in no deletion
\* group of that entry and in no deletion request started for it, in
\* clear-all mode as with a cutoff.
C1_PreservedNeverDeleted ==
    /\ \A g \in 1..Len(col) : \A i \in 1..Len(col[g].items) :
         col[g].items[i] \notin CurRes.preserved_names
    /\ \A k \in 1..Len(threads) : \A i \in 1..Len(threads[k].cmd.clean) :
         threads[k].cmd.clean[i] \notin Res(threads[k].res[1], threads[k].res[2]).preserved_names

\* In clear-all mode an entry with no scope and no managed filter leaves
\* out a named item only when its name is preserved: two items read, one
\* kept.
C1_Witness ==
    /\ pc = "item" /\ clear_all /\ CurRes.preserved_names # {}
    /\ CurRes.condition = None /\ CurRes.managed = None
    /\ nitems = 2
    /\ col = << [key |-> "", items |-> <<"a">>] >>

\* C2: for an item that is not preserved and satisfies the managed filter,
\* validate_item gives True in clear-all mode whatever the creation time;
\* otherwise it raises when the creation time is absent, and gives True
\* exactly when the creation time is strictly before the cutoff.
C2_AgeCutoff ==
    Validated /\ NotPreserved(vItem, vRes) /\ SatisfiesManaged(vItem, vRes)
    => vOut = AgeRule(vItem, vAge, vClearAll)

\* A creation time equal to the cutoff, left out.
C2_Witness ==
    /\ Validated /\ NotPreserved(vItem, vRes) /\ SatisfiesManaged(vItem, vRes)
    /\ ~vClearAll /\ ~CreationAbsent(vItem)
    /\ CreationInstant(vItem) = Instant(vAge)
    /\ vOut = "False"

\* C3: under a managed filter, for an item that is not preserved:
\* validate_item raises when isManaged is missing, gives False when it
\* differs from the required value, and follows the age / clear-all rule
\* when it equals it.
C3_ManagedFilter ==
    Validated /\ vRes.managed # None /\ NotPreserved(vItem, vRes)
    => vOut = IF vItem.isManaged = None THEN "ValueError"
              ELSE IF vItem.isManaged # vRes.managed THEN "False"
              ELSE AgeRule(vItem, vAge, vClearAll)

\* isManaged missing: an error even in clear-all mode.
C3_Witness ==
    /\ Validated /\ vRes.managed # None /\ NotPreserved(vItem, vRes)
    /\ vItem.isManaged = None /\ vClearAll
    /\ vOut = "ValueError"

\* C6: the list calls are issued in catalog order: of two calls, the
\* earlier is for the earlier catalog position.
C6_CatalogOrder ==
    \A i, j \in 1..Len(listed) : i < j => Before(listed[i], listed[j])

\* List calls for entries of the first API and of the last one.
C6_Witness ==
    /\ Len(listed) >= 4
    /\ listed[1][1] = 1
    /\ listed[Len(listed)][1] = NumApis

\* C7: a deletion task that has not finished belongs to the entry main is
\* at, and main is inside clear_resources for it: no list call, no task of
\* another entry and no return from clear_resources happens before every
\* task started has finished.
C7_JoinBeforeAdvance ==
    \A k \in 1..Len(threads) :
        ~Finished(threads[k])
        => threads[k].res = Cur /\ pc \in {"dispatch", "join"}

\* Tasks of a later entry in flight after an earlier entry had two tasks
\* fail (err holds their count).
C7_Witness ==
    /\ pc = "dispatch" /\ err >= 2
    /\ \E k \in 1..Len(threads) : ~Finished(threads[k])

\* The requests of the group with key `key`, in the order they were built.
ChunksOf(key) ==
    LET ts == SelectSeq(Local, LAMBDA t : t.cmd.condition = Condition(CurRes, key))
    IN [i \in 1..Len(ts) |-> ts[i].cmd.clean]

\* C8: for an entry with bulk deletion and a batch size k >= 1, once all
\* requests are built a group of N names has ceil(N/k) chunks, each of k
\* names but possibly the last, and the chunks joined in order are the
\* group's names.
C8_Chunking ==
    pc = "join" /\ CurRes.bulk_delete /\ rate_limit >= 1
    => \A g \in 1..Len(col) :
         LET chunks == ChunksOf(col[g].key)
             N == Len(col[g].items)
         IN /\ Len(chunks) = (N + rate_limit - 1) \div rate_limit
            /\ \A i \in 1..Len(chunks) :
                 IF i < Len(chunks) THEN Len(chunks[i]) = rate_limit
                 ELSE Len(chunks[i]) \in 1..rate_limit
            /\ Flatten(chunks) = col[g].items

\* A group of three names in batches of two.
C8_Witness ==
    /\ pc = "join" /\ CurRes.bulk_delete /\ rate_limit = 2
    /\ \E g \in 1..Len(col) : Len(col[g].items) = 3

\* C9: a request for an entry without bulk deletion carries one name.
C9_NonBulkSingle ==
    \A k \in 1..Len(threads) :
        ~Res(threads[k].res[1], threads[k].res[2]).bulk_delete
        => Len(threads[k].cmd.clean) = 1

\* Two requests for such an entry under a batch size of two.
C9_Witness ==
    /\ rate_limit = 2
    /\ Len(threads) >= 2
    /\ \A k \in 1..Len(threads) :
         ~Res(threads[k].res[1], threads[k].res[2]).bulk_delete

\* C10: outside dry-run mode, once all requests of an entry are built, the
\* names of its requests are, as a multiset, the names of its groups, and
\* each request takes its names from the one group whose scope it carries.
C10_NoLossNoDuplicate ==
    pc = "join" /\ ~dryrun
    => /\ SeqToBag(Flatten([k \in 1..Len(Local) |-> Local[k].cmd.clean]))
          = SeqToBag(Flatten([g \in 1..Len(col) |-> col[g].items]))
       /\ \A k \in 1..Len(Local) : \E g \in 1..Len(col) :
            /\ Local[k].cmd.condition = Condition(CurRes, col[g].key)
            /\ Range(Local[k].cmd.clean) \subseteq Range(col[g].items)

\* Two groups, three names, one of them in both groups.
C10_Witness ==
    /\ pc = "join" /\ ~dryrun
    /\ Len(col) = 2
    /\ Len(col[1].items) + Len(col[2].items) = 3
    /\ Range(col[1].items) \cap Range(col[2].items) # {}

\* C4: when the run has ended, for every entry X whose pass raised in
\* collect (a failed listing that is not tolerated, a malformed item),
\* the pass over every entry after X, in X's API and in the later APIs
\* enabled on the project, was made.
C4_ErrorIsolation ==
    pc = "exited"
    => \A X \in failedAt : \A Y \in Positions :
         Before(X, Y) /\ enabled[Y[1]] = "ENABLED" => Y \in processed

\* C5: when the run has ended, the exit status is 0 exactly when no
\* failure that is not tolerated has occurred.
C5_ExitStatus ==
    pc = "exited" => (status = 0 <=> ~failure)

\* The deletion tasks of the running clear_resources call have all finished.
AllFinished == \A k \in 1..Len(Local) : Finished(Local[k])
\* The tasks of the running call whose deletion call failed.
FailedTasks == { k \in 1..Len(Local) : Local[k].exc }
\* The names of the requests of the running call, one sequence.
Requested == Flatten([k \in 1..Len(Local) |-> Local[k].cmd.clean])

\* C11: when clear_resources returns, what it returns is or-ed into err;
\* for an entry that is not tolerant it is positive exactly when the
\* deletion call of at least one task failed; for a tolerant entry it is 0
\* and err is unchanged, however many calls failed.
C11_FailureCounting ==
    [][pc = "join" /\ pc' # "join"
       => /\ err' = BitOr(err, BagCardinality(errs))
          /\ IF CurRes.tolerate
             THEN BagCardinality(errs) = 0 /\ err' = err
             ELSE BagCardinality(errs) > 0 <=> FailedTasks # {}]_vars

\* A tolerant entry about to return with every deletion call failed, after
\* an entry that is not tolerant returned 2.
C11_Witness ==
    /\ pc = "join" /\ CurRes.tolerate /\ AllFinished
    /\ Len(Local) >= 2 /\ FailedTasks = 1..Len(Local)
    /\ err = 2

\* C12: in dry-run mode no task calls gcloud, no failure is recorded (what
\* clear_resources returns is 0), and once the dispatch loop is over the
\* requests built hold every name of the groups.
C12_DryRun ==
    dryrun
    => /\ \A k \in 1..Len(threads) : ~threads[k].called /\ ~threads[k].exc
       /\ errs = EmptyBag
       /\ pc = "join" => SeqToBag(Requested) = SeqToBag(Flatten([g \in 1..Len(col) |-> col[g].items]))

\* Dry run: three requests built, every task over.
C12_Witness ==
    /\ dryrun /\ pc = "join" /\ Len(Local) = 3 /\ AllFinished
    /\ Len(Requested) = 3

\* C13: when the list call of an entry fails, no deletion task exists or is
\* started for the entry and main stays in the catalog loop, at the next
\* entry; err is unchanged when the entry is tolerant, and has its low bit
\* set when it is not.
C13_ListingFailure ==
    [][pc = "collect" /\ listed' # listed /\ pc' # "item"
       => /\ threads' = threads
          /\ \A k \in 1..Len(threads) : threads[k].res # Cur
          /\ status' = -1
          /\ \/ pc' = "collect" /\ api' = api /\ res' = res + 1
             \/ pc' = "api" /\ api' = api + 1
             \/ pc' = "finish"
          /\ IF CurRes.tolerate THEN err' = err
             ELSE err' % 2 = 1]_vars

\* The listing of the first entry failed, which is not tolerant, then the
\* listing of the tolerant entry failed: main is at the next API with the
\* flag of the first failure only.
C13_Witness ==
    /\ event.what = "ListTolerated" /\ err = 1
    /\ listed = << <<1, 1>>, <<1, 2>>, <<1, 3>> >>
    /\ pc = "api" /\ api = 2 /\ threads = << >>

\* C18: at most one task is inside the with block, the one that holds the
\* lock; and once every task of an entry that is not tolerant has finished,
\* the error list holds one record for each task whose deletion call failed
\* and nothing else.
C18_ErrorSink ==
    /\ Cardinality({ k \in 1..Len(threads) : threads[k].st = "locked" }) <= 1
    /\ \A k \in 1..Len(threads) : threads[k].st = "locked" <=> lock = k
    /\ pc = "join" /\ AllFinished /\ ~CurRes.tolerate /\ threads = Local
       => /\ BagToSet(errs) = FailedTasks
          /\ \A k \in BagToSet(errs) : CopiesIn(k, errs) = 1
          /\ BagCardinality(errs) = Cardinality(FailedTasks)

\* One task inside the with block, one waiting for the lock, one record
\* already appended.
C18_Witness ==
    /\ \E k \in 1..Len(threads) : threads[k].st = "locked"
    /\ \E k \in 1..Len(threads) : threads[k].st = "raised"
    /\ BagCardinality(errs) = 1

\* C19: while requests remain to be built the dispatch loop can take its
\* next step whatever the tasks started are doing, and a task that has not
\* made its call can make it whatever the other tasks are doing.
C19_FanOut ==
    /\ pc = "dispatch" => ENABLED Dispatch
    /\ \A k \in 1..Len(threads) : threads[k].st = "start" => ENABLED AsyncCall(k)

\* Every request of an entry with two groups built and no task has yet
\* made its call.
C19_Witness ==
    /\ pc = "join" /\ Len(col) = 2 /\ Len(Local) = 3
    /\ \A k \in 1..Len(Local) : Local[k].st = "start"

\* C20: when collect raises ValueError on an item of the listing, no
\* deletion task exists or is started for the entry, whatever names were
\* kept before the item; err has its low bit set and main stays in the
\* catalog loop, at the next entry.
C20_MalformedItem ==
    [][pc = "item" /\ event'.what = "ValueError"
       => /\ threads' = threads
          /\ \A k \in 1..Len(threads) : threads[k].res # Cur
          /\ err' % 2 = 1
          /\ status' = -1
          /\ \/ pc' = "collect" /\ api' = api /\ res' = res + 1
             \/ pc' = "api" /\ api' = api + 1
             \/ pc' = "finish"]_vars

\* The pass over the first entry of the catalog ended on a malformed item
\* after two names had been kept; the second entry is next.
C20_Witness ==
    /\ event = Event("ValueError", 2)
    /\ pc = "collect" /\ res = 2 /\ api = 1
    /\ err = 1 /\ threads = << >>

\* C14: the cluster listings are issued for the endpoints in their declared
\* order, one endpoint at a time with the endpoint override set to it, and
\* while a cluster deletion task has not finished the override is still the
\* endpoint of the loop pass that started the task.
C14_EndpointOrder ==
    /\ \A i, j \in 1..Len(listed) : i < j => listed[i] < listed[j]
    /\ pc \in {"clusters", "cluster"} => environ = endpoints[endpoint]
    /\ \A k \in 1..Len(threads) :
         ~Finished(threads[k]) => environ = endpoints[threads[k].endpoint]

\* Two cluster deletions of the last endpoint in flight at once, every
\* endpoint before it having been listed.
C14_Witness ==
    /\ listed = <<1, 2, 3, 4>> /\ pc = "cluster"
    /\ Len(SweepLocal) = 2
    /\ \A k \in 1..Len(SweepLocal) : SweepLocal[k].st = "start"
    /\ err = 0 /\ BagCardinality(errs) > 0

\* C15: when the cluster sweep has handed back to main, the clusters of
\* every endpoint have been listed (a malformed record at one endpoint has
\* not kept the later endpoints from being swept), and err is set if a
\* malformed record was found.
C15_MalformedCluster ==
    pc = "api"
    => /\ listed = <<1, 2, 3, 4>>
       /\ event.what = "ValueError" => err % 2 = 1

\* C16: whatever the client calls of the subnet cleaner answer, the run is
\* not ended by it and err is left at 0: main goes on to the cluster sweep.
C16_BestEffort ==
    /\ pc # "exited" /\ status = -1
    /\ err = 0

\* C17: when the subnet cleaner is over and the subnet listing had been
\* read to its end, every subnet of the listing has been described.
C17_SubnetsIndependent ==
    pc = "endpoint" /\ event.what # "SubnetListValueError"
    => \A i \in 1..Len(subnets) :
         \E c \in 1..Len(calls) : calls[c].op = "describe" /\ calls[c].subnet = i

\* The pass over the entry at Cur is inside collect or clear_resources.
InPass == pc \in {"item", "clear", "dispatch", "join"}
\* The names of a sequence of records.
NamesOf(records) == [i \in 1..Len(records) |-> records[i].name]
\* The record passes the candidate filter of the entry at Cur.
Passes(item) == validate_item(item, age, CurRes, clear_all) = "True"
\* The record carries the scope field of the entry at Cur, and the
\* trailing segment of the field.
Carries(item) ==
    IF CurRes.condition = "zone" THEN item.zone # NoValue
    ELSE item.region # NoValue
Trailing(item) ==
    LET path == IF CurRes.condition = "zone" THEN item.zone ELSE item.region
    IN path[Len(path)]

\* C21: for an entry scoped by zone or region, the groups have distinct
\* keys, and the group of a key holds, in listing order, the names of
\* exactly the records read that carry the scope field, have the key as
\* the trailing segment of the field and pass the filter; every such
\* record has its group, and a record without the field is in none.
C21_ScopedGrouping ==
    InPass /\ CurRes.condition \in {"zone", "region"}
    => /\ \A g, h \in 1..Len(col) : g # h => col[g].key # col[h].key
       /\ \A g \in 1..Len(col) :
            /\ col[g].items # << >>
            /\ col[g].items =
                 NamesOf(SelectSeq(listing, LAMBDA i :
                    Carries(i) /\ Trailing(i) = col[g].key /\ Passes(i)))
       /\ \A i \in 1..Len(listing) :
            Carries(listing[i]) /\ Passes(listing[i])
            => \E g \in 1..Len(col) : col[g].key = Trailing(listing[i])

\* A zonal entry: a stale record whose zone is a bare name and a stale
\* record whose zone is a path to the same name, in one group in their
\* order, and the request for them built.
C21_Witness ==
    /\ pc = "join" /\ CurRes.condition = "zone" /\ ~clear_all
    /\ Len(listing) = 2
    /\ listing[1].zone = <<"z1">> /\ listing[2].zone = <<"zones", "z1">>
    /\ col = << [key |-> "z1", items |-> <<"container-analysis-notes-v1", "a">>] >>
    /\ Len(threads) = 1

\* C22: for a global entry there is at most one group, its key is empty
\* and it holds, in listing order, the names of exactly the records read
\* that carry neither zone nor region and pass the filter; every request
\* built for the entry carries the flag --global.
C22_GlobalScope ==
    InPass /\ CurRes.condition = "global"
    => /\ Len(col) <= 1
       /\ \A g \in 1..Len(col) :
            /\ col[g].key = ""
            /\ col[g].items =
                 NamesOf(SelectSeq(listing, LAMBDA i :
                    i.zone = NoValue /\ i.region = NoValue /\ Passes(i)))
       /\ \A k \in 1..Len(threads) : threads[k].cmd.condition = <<"global">>

\* A global entry: a stale record with a region is left out, a stale
\* record with neither zone nor region is deleted with --global.
C22_Witness ==
    /\ pc = "join" /\ CurRes.condition = "global" /\ ~clear_all
    /\ Len(listing) = 2
    /\ listing[1].region # NoValue /\ Passes(listing[1])
    /\ listing[2].zone = NoValue /\ listing[2].region = NoValue
    /\ col = << [key |-> "", items |-> <<listing[2].name>>] >>
    /\ Len(threads) = 1 /\ threads[1].cmd.condition = <<"global">>

\* C23: when the cluster sweep has handed back to main, which is then at
\* the catalog loop, every cluster deletion task has finished.
C23_SweepJoined ==
    pc = "api" => \A k \in 1..Len(threads) : Finished(threads[k])

\* C24: in dry-run mode the subnet cleaner sends no update call.
C24_DryRunNoChange ==
    dryrun => \A c \in 1..Len(calls) : calls[c].op # "update"

\* C25: when the run has ended it has ended through line 688, with the
\* status of err, and for every API whose enablement query failed the pass
\* over every entry of the later APIs enabled on the project was made.
C25_EnablementContained ==
    pc = "exited"
    => /\ event.what # "CalledProcessError"
       /\ status = ExitStatus(err)
       /\ \A a \in ApiIdx : \A Y \in Positions :
            /\ enabled[a] = "CalledProcessError"
            /\ a < Y[1] /\ enabled[Y[1]] = "ENABLED"
            => Y \in processed

====
